---- MODULE Spec2Model ----
(***************************************************************************)
(* Gomoku brain (Epitech-CI/Gomoku): the line protocol of Brain.cpp        *)
(* (ingestion thread, command queue, dispatcher loop and command handlers) *)
(* and the move search the handlers call.                                  *)
(***************************************************************************)
EXTENDS Integers, Sequences, FiniteSets, TLC

(***************************************************************************)
(* Program constants.                                                      *)
(***************************************************************************)
MIN_BOARD_SIZE == 20

\* enum WIN_CONDITION { NO_WIN, PLAYER_ONE_WIN, PLAYER_TWO_WIN, DRAW }
NO_WIN == 0
PLAYER_ONE_WIN == 1
PLAYER_TWO_WIN == 2
DRAW == 3

\* std::numeric_limits<int>::min() / max()
IntMax == 2147483647
IntMin == -IntMax - 1

\* Cell owners as the handlers write them.
EMPTY == 0
SELF == 1
OPPONENT == 2

\* The depth literals passed to minimax by the three search callers.
TURN_DEPTH == 3
BEGIN_DEPTH == 3
DONE_DEPTH == 5

(***************************************************************************)
(* The board.  State is a vector of int; it is modelled as its length     *)
(* (size) and the function cells from the indices holding a non-zero      *)
(* value to that value: every index below size outside DOMAIN cells holds *)
(* 0.  bs is _boardSize = <<first, second>> = <<width, height>>.          *)
(***************************************************************************)
EmptyState == [size |-> 0, cells |-> << >>]

\* state[i]
At(state, i) == IF i \in DOMAIN state.cells THEN state.cells[i] ELSE 0

\* state[i] = v
Put(state, i, v) ==
  [state EXCEPT !.cells =
     IF v = 0
     THEN [j \in DOMAIN state.cells \ {i} |-> state.cells[j]]
     ELSE [j \in DOMAIN state.cells \cup {i} |->
             IF j = i THEN v ELSE state.cells[j]]]

Max(a, b) == IF a > b THEN a ELSE b

Min(a, b) == IF a < b THEN a ELSE b

\* std::vector::resize(n, 0): keeps the first min(n, size) elements and
\* appends zeros up to n; it does not touch the elements it keeps.
Resize(state, n) ==
  [size |-> n,
   cells |-> [j \in {k \in DOMAIN state.cells : k < n} |-> state.cells[j]]]

\* std::fill(begin, end, 0)
FillNothing(state) == state

Fill(state) == [size |-> state.size, cells |-> << >>]

\* for (int cell : state) if (cell == 0) return false;
isBoardFull(state) == Cardinality(DOMAIN state.cells) = state.size

\* The double loop visits every (i, j) with i < second, j < first and tests
\* state[i * first + j] == player first: the quantifier ranges over the
\* indices c = i * first + j that hold player.
\* checkWinCondition without the guard j <= first - 5 of the horizontal test.
checkWinConditionWrapping(state, bs, player) ==
  \E c \in DOMAIN state.cells :
    /\ state.cells[c] = player
    /\ \A k \in 1 .. 4 : At(state, c + k) = player

checkWinCondition(state, bs, player) ==
  \E c \in DOMAIN state.cells :
    /\ state.cells[c] = player
    /\ bs[1] > 0
    /\ c \div bs[1] < bs[2]
    /\ LET i == c \div bs[1]
           j == c % bs[1]
       IN  \/ /\ j <= bs[1] - 5
              /\ \A k \in 1 .. 4 : At(state, i * bs[1] + j + k) = player
           \/ /\ i <= bs[2] - 5
              /\ \A k \in 1 .. 4 : At(state, (i + k) * bs[1] + j) = player
           \/ /\ i <= bs[2] - 5
              /\ j <= bs[1] - 5
              /\ \A k \in 1 .. 4 : At(state, (i + k) * bs[1] + j + k) = player
           \/ /\ i >= 4
              /\ j <= bs[1] - 5
              /\ \A k \in 1 .. 4 : At(state, (i - k) * bs[1] + j + k) = player

\* State newState = state; newState[move] = player;
applyMove(state, move, player) == Put(state, move, player)

\* hasNeighbor that takes the height for the width in its bounds test.
hasNeighborSquare(state, bs, index, range) ==
  LET x == index \div bs[1]
      y == index % bs[1]
  IN  \E dx \in -range .. range : \E dy \in -range .. range :
        /\ ~(dx = 0 /\ dy = 0)
        /\ x + dx >= 0
        /\ x + dx < bs[1]
        /\ y + dy >= 0
        /\ y + dy < bs[2]
        /\ At(state, (x + dx) * bs[1] + (y + dy)) # 0

hasNeighbor(state, bs, index, range) ==
  LET x == index \div bs[1]
      y == index % bs[1]
  IN  \E dx \in -range .. range : \E dy \in -range .. range :
        /\ ~(dx = 0 /\ dy = 0)
        /\ x + dx >= 0
        /\ x + dx < bs[2]
        /\ y + dy >= 0
        /\ y + dy < bs[1]
        /\ At(state, (x + dx) * bs[1] + (y + dy)) # 0

\* The sequence of the elements of a finite set of integers, increasing.
SortedSeq(S) ==
  LET rank == [e \in S |-> Cardinality({x \in S : x < e})]
  IN  [k \in 1 .. Cardinality(S) |-> CHOOSE e \in S : rank[e] = k - 1]

\* The indices below size at index distance dx * first + dy, |dx|, |dy| <=
\* range, of a non-zero cell: hasNeighbor is false on every other index.
Near(state, bs, range) ==
  {n \in {c + dx * bs[1] + dy :
            c \in DOMAIN state.cells, dx \in -range .. range,
            dy \in -range .. range} : n >= 0 /\ n < state.size}

\* The for-loop visits i = 0 .. size-1 in increasing order and pushes the
\* indices with state[i] == 0 && hasNeighbor(state, i, 1): moves is their
\* increasing sequence.  Only the indices of Near can pass the test.
getPossibleMoves(state, bs) ==
  LET moves == SortedSeq({i \in Near(state, bs, 1) :
                            At(state, i) = 0 /\ hasNeighbor(state, bs, i, 1)})
  IN  IF moves = << >>
      THEN << (bs[2] \div 2) * bs[1] + (bs[1] \div 2) >>
      ELSE moves

\* minimax returns <<score, move>>.  maxLoop / minLoop are the two for-loops
\* over possibleMoves, from position k, with the loop-carried locals.
RECURSIVE minimax(_, _, _, _, _, _)
RECURSIVE maxLoop(_, _, _, _, _, _, _, _, _)
RECURSIVE minLoop(_, _, _, _, _, _, _, _, _)
RECURSIVE minLoopLastBest(_, _, _, _, _, _, _, _, _)

\* maxLoop with a cutoff test that is always true: the loop stops after the
\* first candidate.
maxLoopFirstOnly(state, bs, depth, moves, k, alpha, beta, maxEval, best) ==
  LET move == moves[k]
      eval == minimax(applyMove(state, move, 1), bs, depth - 1, FALSE,
                      alpha, beta)[1]
  IN  IF eval > maxEval THEN << eval, move >>
      ELSE << maxEval, IF best < 0 THEN moves[1] ELSE best >>

maxLoop(state, bs, depth, moves, k, alpha, beta, maxEval, best) ==
  IF k > Len(moves)
  THEN << maxEval, IF best < 0 THEN moves[1] ELSE best >>
  ELSE LET move == moves[k]
           eval == minimax(applyMove(state, move, 1), bs, depth - 1, FALSE,
                           alpha, beta)[1]
           newMax == IF eval > maxEval THEN eval ELSE maxEval
           newBest == IF eval > maxEval THEN move ELSE best
           newAlpha == Max(alpha, eval)
       IN  IF beta <= newAlpha
           THEN << newMax, IF newBest < 0 THEN moves[1] ELSE newBest >>
           ELSE maxLoop(state, bs, depth, moves, k + 1, newAlpha, beta,
                        newMax, newBest)

\* minLoop that takes a candidate when it is as good as the best so far.
minLoopLastBest(state, bs, depth, moves, k, alpha, beta, minEval, best) ==
  IF k > Len(moves)
  THEN << minEval, IF best < 0 THEN moves[1] ELSE best >>
  ELSE LET move == moves[k]
           eval == minimax(applyMove(state, move, 2), bs, depth - 1, TRUE,
                           alpha, beta)[1]
           newMin == IF eval <= minEval THEN eval ELSE minEval
           newBest == IF eval <= minEval THEN move ELSE best
           newBeta == Min(beta, eval)
       IN  IF newBeta <= alpha
           THEN << newMin, IF newBest < 0 THEN moves[1] ELSE newBest >>
           ELSE minLoopLastBest(state, bs, depth, moves, k + 1, alpha,
                                newBeta, newMin, newBest)

minLoop(state, bs, depth, moves, k, alpha, beta, minEval, best) ==
  IF k > Len(moves)
  THEN << minEval, IF best < 0 THEN moves[1] ELSE best >>
  ELSE LET move == moves[k]
           eval == minimax(applyMove(state, move, 2), bs, depth - 1, TRUE,
                           alpha, beta)[1]
           newMin == IF eval < minEval THEN eval ELSE minEval
           newBest == IF eval < minEval THEN move ELSE best
           newBeta == Min(beta, eval)
       IN  IF newBeta <= alpha
           THEN << newMin, IF newBest < 0 THEN moves[1] ELSE newBest >>
           ELSE minLoop(state, bs, depth, moves, k + 1, alpha, newBeta,
                        newMin, newBest)

minimax(state, bs, depth, maximizingPlayer, alpha, beta) ==
  IF checkWinCondition(state, bs, 1) THEN << PLAYER_ONE_WIN, 0 >>
  ELSE IF checkWinCondition(state, bs, 2) THEN << PLAYER_TWO_WIN, 0 >>
  ELSE IF depth = 0 \/ isBoardFull(state) THEN << DRAW, DRAW >>
  ELSE LET possibleMoves == getPossibleMoves(state, bs)
       IN  IF maximizingPlayer
           THEN maxLoop(state, bs, depth, possibleMoves, 1, alpha, beta,
                        IntMin, -1)
           ELSE minLoop(state, bs, depth, possibleMoves, 1, alpha, beta,
                        IntMax, -1)

(***************************************************************************)
(* Input lines.  A line is the keyword it begins with and the numbers of   *)
(* its remainder; term says that the remainder ends in a carriage return   *)
(* (std::getline has already removed the line feed).  kw = "ENTRY" is a    *)
(* bulk-load line "a,b,c", kw = "OTHER" a non-empty line no keyword is a   *)
(* prefix of, kw = "EMPTY" the empty line.  A line without term still has  *)
(* a non-empty remainder after its keyword, ending in another character.   *)
(***************************************************************************)
Line(kw, a, b, c, term) == [kw |-> kw, a |-> a, b |-> b, c |-> c, term |-> term]

EmptyLine == Line("EMPTY", 0, 0, 0, FALSE)

\* The keys of _commands that have a handler doing nothing past the
\* terminator check.
NoopKeywords == {"PLAY", "SWAP2BOARD", "ERROR", "UNKNOWN", "MESSAGE", "DEBUG",
                 "SUGGEST"}

\* The keys of _commands.
Keywords == {"START", "TURN", "BEGIN", "BOARD", "DONE", "INFO", "END", "ABOUT",
             "RECSTART", "RESTART", "TAKEBACK"} \cup NoopKeywords

\* Values an int read before it was ever written can hold.
Indeterminate == {-1, 0}

\* The lines the manager sends in the protocol specification.
Lines ==
  { Line("START", n, 0, 0, t) : n \in {MIN_BOARD_SIZE - 1, MIN_BOARD_SIZE},
                                t \in BOOLEAN }
  \cup { Line("RECSTART", MIN_BOARD_SIZE + 1, MIN_BOARD_SIZE, 0, TRUE),
         Line("RECSTART", MIN_BOARD_SIZE, MIN_BOARD_SIZE - 1, 0, TRUE),
         Line("RECSTART", MIN_BOARD_SIZE + 1, MIN_BOARD_SIZE, 0, FALSE) }
  \cup { Line("TURN", 0, 0, 0, t) : t \in BOOLEAN }
  \cup { Line("TURN", MIN_BOARD_SIZE + 1, 0, 0, TRUE),
         Line("TURN", 0, -1, 0, TRUE) }
  \cup { Line("ENTRY", 1, 0, SELF, t) : t \in BOOLEAN }
  \cup { Line("ENTRY", 1, 0, 3, TRUE), Line("ENTRY", 1, 0, 4, TRUE),
         Line("ENTRY", 1, MIN_BOARD_SIZE, OPPONENT, TRUE) }
  \cup { Line("TAKEBACK", 1, 0, 0, TRUE), Line("TAKEBACK", -1, 0, 0, TRUE),
         Line("TAKEBACK", 0, 1, 0, TRUE) }
  \cup { Line("INFO", k, 0, 0, TRUE) : k \in {0, 1} }
  \cup { Line(kw, 0, 0, 0, t) :
           kw \in {"BEGIN", "BOARD", "DONE", "END", "RESTART", "PLAY"},
           t \in BOOLEAN }
  \cup { Line(kw, 0, 0, 0, TRUE) :
           kw \in (NoopKeywords \ {"PLAY"}) \cup {"ABOUT", "OTHER"} }
  \cup { EmptyLine }

\* The lines of the game specification: a 20x20 board, OPPONENT moves on
\* the first five cells of row 0, BEGIN, and one line for every other
\* branch of logicLoop.
GameLines ==
  { Line("START", MIN_BOARD_SIZE, 0, 0, TRUE) }
  \cup { Line("TURN", x, 0, 0, TRUE) : x \in 0 .. 4 }
  \cup { Line("ENTRY", 1, 0, SELF, TRUE) }
  \cup { Line(kw, 0, 0, 0, TRUE) :
           kw \in {"BEGIN", "BOARD", "END", "RESTART", "PLAY", "ABOUT",
                   "INFO", "RECSTART", "TAKEBACK", "MESSAGE", "OTHER"} }
  \cup { Line("DONE", 0, 0, 0, FALSE), EmptyLine }

(***************************************************************************)
(* Responses: one record per line written to the output.                   *)
(***************************************************************************)
Response(kind, x, y) == [kind |-> kind, x |-> x, y |-> y]

sendOk == Response("OK", 0, 0)

sendError == Response("ERROR", 0, 0)

sendUnknownEmpty(message) ==
  [kind |-> "UNKNOWN", x |-> 0, y |-> 0, message |-> EmptyLine]

\* "UNKNOWN " + message
sendUnknown(message) ==
  [kind |-> "UNKNOWN", x |-> 0, y |-> 0, message |-> message]

sendDebug == Response("DEBUG", 0, 0)

sendCoordinate(x, y) ==
  IF x < 0 \/ y < 0 THEN sendError ELSE Response("MOVE", x, y)

\* checkTerminator: true iff the last character is 0x0d or 0x0a.
checkTerminator(line) == line.term

\* The result recorded when a handler ran no search.
NoSearch == [size |-> -1, cells |-> << >>]

(***************************************************************************)
(* The command handlers, as functions from the board, the board size and   *)
(* the line to the set of outcomes the handler can have: the board and     *)
(* size it leaves, the lines it sends, the board it passed to minimax      *)
(* (NoSearch if it ran none) and whether the process was aborted.          *)
(***************************************************************************)
Out(goban, bs, resp, search) ==
  [goban |-> goban, bs |-> bs, resp |-> resp, search |-> search,
   abort |-> FALSE]

Aborted(goban, bs, search) ==
  [goban |-> goban, bs |-> bs, resp |-> << >>, search |-> search,
   abort |-> TRUE]

Rejected(goban, bs) == Out(goban, bs, << sendError >>, NoSearch)

OutOfRangeOffByOne(bs, x, y) == x < 0 \/ x > bs[1] \/ y < 0 \/ y >= bs[2]

\* x < 0 || x >= _boardSize.first || y < 0 || y >= _boardSize.second
OutOfRange(bs, x, y) == x < 0 \/ x >= bs[1] \/ y < 0 \/ y >= bs[2]

handleStart(goban, bs, line) ==
  IF ~checkTerminator(line) THEN { Rejected(goban, bs) }
  ELSE IF line.a < MIN_BOARD_SIZE THEN { Rejected(goban, bs) }
  ELSE { Out(Resize(goban, line.a * line.a), << line.a, line.a >>,
             << sendOk >>, NoSearch) }

handleRecstartWidthOnly(goban, bs, line) ==
  IF ~checkTerminator(line) THEN { Rejected(goban, bs) }
  ELSE IF line.a < MIN_BOARD_SIZE THEN { Rejected(goban, bs) }
  ELSE { Out(Resize(goban, line.a * line.b), << line.a, line.b >>,
             << sendOk, sendDebug >>, NoSearch) }

handleRecstart(goban, bs, line) ==
  IF ~checkTerminator(line) THEN { Rejected(goban, bs) }
  ELSE IF line.a < MIN_BOARD_SIZE \/ line.b < MIN_BOARD_SIZE
       THEN { Rejected(goban, bs) }
  ELSE { Out(Resize(goban, line.a * line.b), << line.a, line.b >>,
             << sendOk, sendDebug >>, NoSearch) }

handleRestart(goban, bs, line) ==
  IF ~checkTerminator(line) THEN { Rejected(goban, bs) }
  ELSE { Out(Fill(goban), bs, << sendOk >>, NoSearch) }

\* handleTurn over a search that works on the caller's board and does not
\* undo its last trial placement.
handleTurnKeepsTrial(goban, bs, line) ==
  IF ~checkTerminator(line) THEN { Rejected(goban, bs) }
  ELSE IF OutOfRange(bs, line.a, line.b) THEN { Rejected(goban, bs) }
  ELSE LET played == Put(goban, line.b * bs[1] + line.a, 2)
           result == minimax(played, bs, TURN_DEPTH, TRUE, IntMin, IntMax)
           moves == getPossibleMoves(played, bs)
       IN  { Out(applyMove(played, moves[Len(moves)], 1), bs,
                 << sendCoordinate(result[2] % bs[1], result[2] \div bs[1]) >>,
                 played) }

handleTurn(goban, bs, line) ==
  IF ~checkTerminator(line) THEN { Rejected(goban, bs) }
  ELSE IF OutOfRange(bs, line.a, line.b) THEN { Rejected(goban, bs) }
  ELSE LET played == Put(goban, line.b * bs[1] + line.a, 2)
           result == minimax(played, bs, TURN_DEPTH, TRUE, IntMin, IntMax)
       IN  { Out(played, bs,
                 << sendCoordinate(result[2] % bs[1], result[2] \div bs[1]) >>,
                 played) }

\* index is the pair minimax returned; index.second >= _goban.size() compares
\* as unsigned, so a negative index.second fails it too.
checkAlgorithmReturn(goban, index) ==
  /\ index[1] # DRAW
  /\ ~(index[2] = PLAYER_ONE_WIN \/ index[2] = PLAYER_TWO_WIN)
  /\ ~(index[2] >= goban.size \/ index[2] < 0)

handleBegin(goban, bs, line) ==
  IF ~checkTerminator(line) THEN { Rejected(goban, bs) }
  ELSE LET result == minimax(goban, bs, BEGIN_DEPTH, TRUE, IntMin, IntMax)
       IN  IF ~checkAlgorithmReturn(goban, result)
           THEN { Out(goban, bs, << sendError >>, goban) }
           ELSE { Out(Put(goban, result[2], 1), bs,
                      << sendCoordinate(result[2] % bs[1],
                                        result[2] \div bs[1]) >>,
                      goban) }

\* result.second % _boardSize.first with _boardSize.first == 0 is undefined:
\* the process is killed by the division, or goes on with some x and y.
handleDone(goban, bs, line) ==
  IF ~checkTerminator(line) THEN { Rejected(goban, bs) }
  ELSE LET result == minimax(goban, bs, DONE_DEPTH, TRUE, IntMin, IntMax)
       IN  IF bs[1] = 0
           THEN { Aborted(goban, bs, goban) }
                \cup { Out(goban, bs, << sendCoordinate(x, y) >>, goban) :
                         x \in Indeterminate, y \in Indeterminate }
           ELSE { Out(goban, bs,
                      << sendCoordinate(result[2] % bs[1],
                                        result[2] \div bs[1]) >>,
                      goban) }

ParsedEntrySwapped(line) ==
  IF line.kw = "ENTRY" THEN { << line.b, line.a, line.c >> }
  ELSE { << 0, y, player >> : y \in Indeterminate, player \in Indeterminate }

\* What ss >> x >> y >> player leaves in x, y, player: the three numbers of
\* an entry line; on a line that does not start with a number the first
\* extraction fails and writes 0 to x, and y and player are never written.
ParsedEntry(line) ==
  IF line.kw = "ENTRY" THEN { << line.a, line.b, line.c >> }
  ELSE { << 0, y, player >> : y \in Indeterminate, player \in Indeterminate }

\* The dump loop reads _goban[i * first + j] for i < first, j < second.
DumpInBounds(goban, bs) ==
  \A i \in 0 .. bs[1] - 1 : i * bs[1] + bs[2] - 1 < goban.size

handleBoardAnyOwner(goban, bs, line) ==
  IF ~checkTerminator(line) THEN { Rejected(goban, bs) }
  ELSE UNION {
         IF OutOfRange(bs, e[1], e[2]) THEN { Rejected(goban, bs) }
         ELSE LET loaded == Put(goban, e[2] * bs[1] + e[1], e[3])
              IN  { Out(loaded, bs, << >>, NoSearch) }
                  \cup (IF DumpInBounds(loaded, bs) THEN { }
                        ELSE { Aborted(loaded, bs, NoSearch) }) :
         e \in ParsedEntry(line) }

\* A dump that reads past the end of _goban is undefined: the process is
\* killed by the read, or goes on.
handleBoard(goban, bs, line) ==
  IF ~checkTerminator(line) THEN { Rejected(goban, bs) }
  ELSE UNION {
         IF OutOfRange(bs, e[1], e[2]) THEN { Rejected(goban, bs) }
         ELSE IF e[3] = 3 THEN { Rejected(goban, bs) }
         ELSE LET loaded == Put(goban, e[2] * bs[1] + e[1], e[3])
              IN  { Out(loaded, bs, << >>, NoSearch) }
                  \cup (IF DumpInBounds(loaded, bs) THEN { }
                        ELSE { Aborted(loaded, bs, NoSearch) }) :
         e \in ParsedEntry(line) }

\* ss >> x >> y on "x,y": the comma is not replaced here, so the extraction
\* of y stops at it and writes 0 to y.
handleTakeback(goban, bs, line) ==
  IF ~checkTerminator(line) THEN { Rejected(goban, bs) }
  ELSE IF OutOfRange(bs, line.a, 0) THEN { Rejected(goban, bs) }
  ELSE { Out(Put(goban, 0 * bs[1] + line.a, 0), bs, << >>, NoSearch) }

\* Info::checkKeyExists(key); line.a = 1 stands for a line with a known key.
checkKeyExists(line) == line.a = 1

\* A missing terminator is written to std::cerr only.
handleInfo(goban, bs, line) ==
  IF ~checkTerminator(line) THEN { Out(goban, bs, << >>, NoSearch) }
  ELSE IF ~checkKeyExists(line) THEN { Rejected(goban, bs) }
  ELSE { Out(goban, bs, << >>, NoSearch) }

\* The ABOUT file opens, and its line is written, or it does not.
handleAbout(goban, bs, line) ==
  IF ~checkTerminator(line) THEN { Rejected(goban, bs) }
  ELSE { Out(goban, bs, << Response("ABOUT", 0, 0) >>, NoSearch),
         Out(goban, bs, << sendDebug >>, NoSearch) }

handlePlay(goban, bs, line) ==
  IF ~checkTerminator(line) THEN { Rejected(goban, bs) }
  ELSE { Out(goban, bs, << >>, NoSearch) }

\* handleSwap2Board, handleError, handleUnknown, handleMessage, handleDebug,
\* handleSuggest.
handleReserved(goban, bs, line) ==
  IF ~checkTerminator(line) THEN { Rejected(goban, bs) }
  ELSE { Out(goban, bs, << >>, NoSearch) }

handleEnd(goban, bs, line) ==
  IF ~checkTerminator(line) THEN { Rejected(goban, bs) }
  ELSE { Out(goban, bs, << >>, NoSearch) }

(***************************************************************************)
(* The engine: the input thread (inputHandler), the command queue and the  *)
(* logic thread (logicLoop) with the handlers it calls.                    *)
(***************************************************************************)
MaxLines == 2
MaxPushes == 3

\* The lines of the pipeline specification: one line of every keyword, sent
\* to an engine that has no board yet.
PipeLines ==
  { Line(kw, 0, 0, 0, TRUE) : kw \in Keywords \cup {"OTHER"} } \cup { EmptyLine }

VARIABLES
  ipc,               \* inputHandler: "start", "check", "read", "push", "notify", "exit"
  data,              \* inputHandler's line buffer
  nRead,             \* lines read from std::cin so far
  eof,               \* std::cin has reached its end
  _commandQueue,
  asleep,            \* logicLoop is blocked in _cv.wait
  pushed,            \* history: every line pushed, in order
  popped,            \* history: every line popped, in order
  _running,
  pc,                \* logicLoop: "wait", "handle", "done", "aborted"
  payload,           \* the line logicLoop popped last
  boardIsActivated,
  _boardSize,
  _goban,
  resp,              \* lines sent since payload was popped
  searchArg,         \* board given to minimax since payload was popped
  before,            \* board, size and loading flag when payload was popped
  probe              \* a direct call of a search function: arguments, result

pipeVars == << ipc, data, nRead, eof, _commandQueue, asleep, pushed, popped >>
vars == << ipc, data, nRead, eof, _commandQueue, asleep, pushed, popped,
           _running, pc, payload, boardIsActivated, _boardSize, _goban,
           resp, searchArg, before, probe >>

\* No function is called apart from the engine's own run.
NoProbe == [call |-> "none"]

\* Brain::start has run initializeCommands and set _running; the input
\* thread is created and has not run yet.
Init ==
  /\ ipc = "start"
  /\ data = EmptyLine
  /\ nRead = 0
  /\ eof = FALSE
  /\ _commandQueue = << >>
  /\ asleep = FALSE
  /\ pushed = << >>
  /\ popped = << >>
  /\ _running = TRUE
  /\ pc = "wait"
  /\ payload = EmptyLine
  /\ boardIsActivated = FALSE
  /\ _boardSize = << 0, 0 >>
  /\ _goban = EmptyState
  /\ resp = << >>
  /\ searchArg = NoSearch
  /\ before = [goban |-> EmptyState, bs |-> << 0, 0 >>, active |-> FALSE]
  /\ probe = NoProbe

Snapshot == [goban |-> _goban, bs |-> _boardSize, active |-> boardIsActivated]

logicVars == << _running, pc, payload, boardIsActivated, _boardSize, _goban,
                resp, searchArg, before >>

\* ---- inputHandler ----
IngestStart ==
  /\ ipc = "start" /\ pc # "aborted"
  /\ _running' = TRUE
  /\ ipc' = "check"
  /\ UNCHANGED << data, nRead, eof, _commandQueue, asleep, pushed, popped,
                  pc, payload, boardIsActivated, _boardSize, _goban, resp,
                  searchArg, before >>
  /\ UNCHANGED probe

IngestCheck ==
  /\ ipc = "check" /\ pc # "aborted"
  /\ ipc' = IF _running THEN "read" ELSE "exit"
  /\ UNCHANGED << data, nRead, eof, _commandQueue, asleep, pushed, popped >>
  /\ UNCHANGED logicVars
  /\ UNCHANGED probe

\* std::getline returns: with the next line, or because the input ended.
\* The call that finds the end after a complete line leaves data empty; any
\* other call at the end leaves data as it was.
IngestRead ==
  /\ ipc = "read" /\ pc # "aborted"
  /\ \/ /\ ~eof /\ nRead < MaxLines
        /\ \E l \in PipeLines : data' = l
        /\ nRead' = nRead + 1
        /\ eof' = eof
     \/ /\ eof' = TRUE
        /\ nRead' = nRead
        /\ data' \in (IF eof THEN {data} ELSE {data, EmptyLine})
  /\ ipc' = "push"
  /\ UNCHANGED << _commandQueue, asleep, pushed, popped >>
  /\ UNCHANGED logicVars
  /\ UNCHANGED probe

\* IngestPush that also matches the line against the command table, as the
\* comment above inputHandler describes, and enters the load on BOARD.
IngestPushAndDispatch ==
  /\ ipc = "push" /\ pc # "aborted"
  /\ Len(pushed) < MaxPushes
  /\ _commandQueue' = Append(_commandQueue, data)
  /\ pushed' = Append(pushed, data)
  /\ ipc' = "notify"
  /\ boardIsActivated' = (boardIsActivated \/ data.kw = "BOARD")
  /\ UNCHANGED << data, nRead, eof, asleep, popped >>
  /\ UNCHANGED << _running, pc, payload, _boardSize, _goban, resp, searchArg,
                  before >>
  /\ UNCHANGED probe

IngestPush ==
  /\ ipc = "push" /\ pc # "aborted"
  /\ Len(pushed) < MaxPushes
  /\ _commandQueue' = Append(_commandQueue, data)
  /\ pushed' = Append(pushed, data)
  /\ ipc' = "notify"
  /\ UNCHANGED << data, nRead, eof, asleep, popped >>
  /\ UNCHANGED logicVars
  /\ UNCHANGED probe

\* The pushes after the first MaxPushes: the histories are full, and of the
\* queue the model keeps the first MaxPushes lines.
IngestPushBeyond ==
  /\ ipc = "push" /\ pc # "aborted"
  /\ Len(pushed) >= MaxPushes
  /\ _commandQueue' = (IF Len(_commandQueue) < MaxPushes
                       THEN Append(_commandQueue, data) ELSE _commandQueue)
  /\ ipc' = "notify"
  /\ UNCHANGED << data, nRead, eof, asleep, pushed, popped >>
  /\ UNCHANGED logicVars
  /\ UNCHANGED probe

\* IngestNotify whose signal does not reach a waiting logicLoop.
IngestNotifyLost ==
  /\ ipc = "notify" /\ pc # "aborted"
  /\ ipc' = "check"
  /\ UNCHANGED << data, nRead, eof, _commandQueue, asleep, pushed, popped >>
  /\ UNCHANGED logicVars
  /\ UNCHANGED probe

IngestNotify ==
  /\ ipc = "notify" /\ pc # "aborted"
  /\ asleep' = FALSE
  /\ ipc' = "check"
  /\ UNCHANGED << data, nRead, eof, _commandQueue, pushed, popped >>
  /\ UNCHANGED logicVars
  /\ UNCHANGED probe

\* ---- logicLoop ----
\* The histories keep the first MaxPushes lines.
Record(history, line) ==
  IF Len(history) < MaxPushes THEN Append(history, line) ELSE history

back(queue) == queue[Len(queue)]

front(queue) == Head(queue)
pop(queue) == Tail(queue)

\* _cv.wait finds its predicate false and blocks.
Sleep ==
  /\ pc = "wait" /\ ~asleep
  /\ _running /\ _commandQueue = << >>
  /\ asleep' = TRUE
  /\ UNCHANGED << ipc, data, nRead, eof, _commandQueue, pushed, popped >>
  /\ UNCHANGED logicVars
  /\ UNCHANGED probe

DequeueWhenStopped ==
  /\ pc = "wait" /\ ~asleep
  /\ _commandQueue # << >>
  /\ payload' = front(_commandQueue)
  /\ _commandQueue' = pop(_commandQueue)
  /\ popped' = Record(popped, front(_commandQueue))
  /\ pc' = "handle"
  /\ resp' = << >>
  /\ searchArg' = NoSearch
  /\ before' = Snapshot
  /\ UNCHANGED << ipc, data, nRead, eof, asleep, pushed >>
  /\ UNCHANGED << _running, boardIsActivated, _boardSize, _goban >>
  /\ UNCHANGED probe

Dequeue ==
  /\ pc = "wait" /\ ~asleep
  /\ _running /\ _commandQueue # << >>
  /\ payload' = front(_commandQueue)
  /\ _commandQueue' = pop(_commandQueue)
  /\ popped' = Record(popped, front(_commandQueue))
  /\ pc' = "handle"
  /\ resp' = << >>
  /\ searchArg' = NoSearch
  /\ before' = Snapshot
  /\ UNCHANGED << ipc, data, nRead, eof, asleep, pushed >>
  /\ UNCHANGED << _running, boardIsActivated, _boardSize, _goban >>
  /\ UNCHANGED probe

\* The protocol specification leaves the input thread out: the next line of
\* the manager, any line of Lines, reaches logicLoop as its payload.
ReceiveFrom(lines) ==
  /\ pc = "wait" /\ _running
  /\ \E l \in lines : payload' = l
  /\ pc' = "handle"
  /\ resp' = << >>
  /\ searchArg' = NoSearch
  /\ before' = Snapshot
  /\ UNCHANGED pipeVars
  /\ UNCHANGED << _running, boardIsActivated, _boardSize, _goban >>
  /\ UNCHANGED probe

Receive == ReceiveFrom(Lines)

\* The game specification: the manager plays OPPONENT stones along row 0.
ReceiveGame == ReceiveFrom(GameLines)

LoopExit ==
  /\ pc = "wait" /\ ~_running
  /\ pc' = "done"
  /\ UNCHANGED pipeVars
  /\ UNCHANGED << _running, payload, boardIsActivated, _boardSize, _goban,
                  resp, searchArg, before >>
  /\ UNCHANGED probe

\* What a handler's outcome o leaves behind.
Apply(o) ==
  /\ _goban' = o.goban
  /\ _boardSize' = o.bs
  /\ resp' = o.resp
  /\ searchArg' = o.search
  /\ pc' = IF o.abort THEN "aborted" ELSE "wait"
  /\ UNCHANGED << payload, before >>
  /\ UNCHANGED pipeVars
  /\ UNCHANGED probe

DispatchedWhileLoading(kw) == pc = "handle" /\ payload.kw = kw

\* The command table reaches the handler of keyword kw.
Dispatched(kw) == pc = "handle" /\ payload.kw = kw /\ ~boardIsActivated

SkipEmpty ==
  /\ pc = "handle" /\ payload.kw = "EMPTY"
  /\ pc' = "wait"
  /\ UNCHANGED pipeVars
  /\ UNCHANGED << _running, payload, boardIsActivated, _boardSize, _goban,
                  resp, searchArg, before >>
  /\ UNCHANGED probe

\* A line that is not a DONE line, popped while boardIsActivated.
LoadEntry ==
  /\ pc = "handle" /\ boardIsActivated
  /\ payload.kw \notin {"EMPTY", "DONE"}
  /\ \E o \in handleBoard(_goban, _boardSize, payload) : Apply(o)
  /\ UNCHANGED << _running, boardIsActivated >>

EnterBoard ==
  /\ Dispatched("BOARD")
  /\ boardIsActivated' = TRUE
  /\ pc' = "wait"
  /\ UNCHANGED pipeVars
  /\ UNCHANGED << _running, payload, _boardSize, _goban, resp, searchArg,
                  before >>
  /\ UNCHANGED probe

HandleDone ==
  /\ pc = "handle" /\ payload.kw = "DONE"
  /\ boardIsActivated' = FALSE
  /\ \E o \in handleDone(_goban, _boardSize, payload) : Apply(o)
  /\ UNCHANGED _running

HandleStart ==
  /\ Dispatched("START")
  /\ \E o \in handleStart(_goban, _boardSize, payload) : Apply(o)
  /\ UNCHANGED << _running, boardIsActivated >>

HandleRecstart ==
  /\ Dispatched("RECSTART")
  /\ \E o \in handleRecstart(_goban, _boardSize, payload) : Apply(o)
  /\ UNCHANGED << _running, boardIsActivated >>

HandleRestart ==
  /\ Dispatched("RESTART")
  /\ \E o \in handleRestart(_goban, _boardSize, payload) : Apply(o)
  /\ UNCHANGED << _running, boardIsActivated >>

HandleTurn ==
  /\ Dispatched("TURN")
  /\ \E o \in handleTurn(_goban, _boardSize, payload) : Apply(o)
  /\ UNCHANGED << _running, boardIsActivated >>

HandleBegin ==
  /\ Dispatched("BEGIN")
  /\ \E o \in handleBegin(_goban, _boardSize, payload) : Apply(o)
  /\ UNCHANGED << _running, boardIsActivated >>

HandleTakeback ==
  /\ Dispatched("TAKEBACK")
  /\ \E o \in handleTakeback(_goban, _boardSize, payload) : Apply(o)
  /\ UNCHANGED << _running, boardIsActivated >>

HandleInfo ==
  /\ Dispatched("INFO")
  /\ \E o \in handleInfo(_goban, _boardSize, payload) : Apply(o)
  /\ UNCHANGED << _running, boardIsActivated >>

HandleAbout ==
  /\ Dispatched("ABOUT")
  /\ \E o \in handleAbout(_goban, _boardSize, payload) : Apply(o)
  /\ UNCHANGED << _running, boardIsActivated >>

HandlePlay ==
  /\ Dispatched("PLAY")
  /\ \E o \in handlePlay(_goban, _boardSize, payload) : Apply(o)
  /\ UNCHANGED << _running, boardIsActivated >>

HandleReserved ==
  /\ \E kw \in NoopKeywords \ {"PLAY"} : Dispatched(kw)
  /\ \E o \in handleReserved(_goban, _boardSize, payload) : Apply(o)
  /\ UNCHANGED << _running, boardIsActivated >>

HandleEnd ==
  /\ Dispatched("END")
  /\ \E o \in handleEnd(_goban, _boardSize, payload) : Apply(o)
  /\ _running' = (IF checkTerminator(payload) THEN FALSE ELSE _running)
  /\ UNCHANGED boardIsActivated

\* No key of the command table is a prefix of the line.
UnknownLine ==
  /\ pc = "handle" /\ ~boardIsActivated
  /\ payload.kw \notin Keywords \cup {"EMPTY"}
  /\ pc' = "wait"
  /\ resp' = << sendUnknown(payload) >>
  /\ UNCHANGED pipeVars
  /\ UNCHANGED << _running, payload, boardIsActivated, _boardSize, _goban,
                  searchArg, before >>
  /\ UNCHANGED probe

Handle ==
  \/ SkipEmpty \/ LoadEntry \/ EnterBoard \/ HandleDone
  \/ HandleStart \/ HandleRecstart \/ HandleRestart
  \/ HandleTurn \/ HandleBegin \/ HandleTakeback
  \/ HandleInfo \/ HandleAbout \/ HandlePlay \/ HandleReserved
  \/ HandleEnd \/ UnknownLine

Next == Receive \/ LoopExit \/ Handle

Spec == Init /\ [][Next]_vars

NextPipe ==
  \/ IngestStart \/ IngestCheck \/ IngestRead \/ IngestPush \/ IngestNotify
  \/ Sleep \/ Dequeue \/ LoopExit \/ Handle

SpecPipe == Init /\ [][NextPipe]_vars

NextGame == ReceiveGame \/ LoopExit \/ Handle

SpecGame == Init /\ [][NextGame]_vars

(***************************************************************************)
(* Properties.  Returned: logicLoop is between two lines, so payload is    *)
(* the line handled last, before is the board it was handled on, and resp  *)
(* and searchArg are what its handling sent and searched.  ByTable(kw):    *)
(* that line had keyword kw and went through the command table.            *)
(***************************************************************************)
Returned == pc \in {"wait", "done"}
ByTable(kw) == Returned /\ payload.kw = kw /\ ~before.active
Cell(bs, x, y) == y * bs[1] + x
OnBoard(bs, x, y) == x \in 0 .. bs[1] - 1 /\ y \in 0 .. bs[2] - 1

\* C1: lines are handled in the order they were read and pushed: the lines
\* popped so far followed by the queue are the lines pushed so far, and the
\* line being handled is the last one popped, so a later line is popped only
\* after the handler of the earlier one has returned.
C1_HandledInOrder ==
  /\ pushed = popped \o _commandQueue
  /\ pc = "handle" => popped # << >> /\ payload = popped[Len(popped)]
  /\ Len(popped) > 0 /\ pc # "handle" => payload = popped[Len(popped)]

\* C1 witness: two different lines and a third were pushed, the first has
\* been handled, the second is being handled and the third is waiting.
C1_Witness ==
  /\ Len(pushed) = 3 /\ pushed[1] # pushed[2]
  /\ popped = SubSeq(pushed, 1, 2)
  /\ pc = "handle" /\ Len(_commandQueue) = 1

\* C2: boardIsActivated holds exactly from the handling of a BOARD line to
\* the next DONE line; a non-empty line other than DONE popped while it
\* holds has the effect of handleBoard on that line and of nothing else: no
\* stop, no search, no change of size, the flag stays set.
C2_LoadingBoard ==
  Returned =>
    /\ boardIsActivated =
         (payload.kw # "DONE" /\ (payload.kw = "BOARD" \/ before.active))
    /\ before.active /\ payload.kw \notin {"EMPTY", "DONE"} =>
         /\ _running
         /\ searchArg = NoSearch
         /\ _boardSize = before.bs
         /\ Out(_goban, _boardSize, resp, searchArg)
              \in handleBoard(before.goban, before.bs, payload)

\* C2 witness: an END line with its terminator was popped while loading;
\* the engine still runs and still loads.
C2_Witness ==
  /\ pc = "wait" /\ before.active
  /\ payload.kw = "END" /\ payload.term
  /\ _running /\ boardIsActivated

\* C3: a TURN x,y with (x,y) on the board gives minimax a board whose cell
\* (x,y) is OPPONENT, and the cell of every coordinate it replies was EMPTY
\* on that board and is SELF on the board the handler leaves.
C3_TurnPlacesBothStones ==
  ByTable("TURN") /\ payload.term
    /\ OnBoard(before.bs, payload.a, payload.b) =>
      /\ searchArg # NoSearch
      /\ At(searchArg, Cell(before.bs, payload.a, payload.b)) = OPPONENT
      /\ \A i \in 1 .. Len(resp) :
           resp[i].kind = "MOVE" =>
             /\ At(searchArg, Cell(before.bs, resp[i].x, resp[i].y)) = EMPTY
             /\ At(_goban, Cell(before.bs, resp[i].x, resp[i].y)) = SELF

\* minimax, called with a depth above 0, returns at once and without a move:
\* a side has five in a row or the board is full.
NoMove(state, bs) ==
  \/ checkWinCondition(state, bs, 1)
  \/ checkWinCondition(state, bs, 2)
  \/ isBoardFull(state)

\* C4: when minimax returned without a move, the handler that called it
\* leaves the board as minimax saw it and sends no coordinate.
C4_NoMoveNeverUsed ==
  Returned /\ searchArg # NoSearch /\ NoMove(searchArg, _boardSize) =>
    /\ _goban = searchArg
    /\ \A i \in 1 .. Len(resp) : resp[i].kind # "MOVE"

\* C5: a TURN x,y with x or y off the board sends ERROR, changes no cell and
\* runs no search.
C5_TurnOutOfRange ==
  ByTable("TURN") /\ ~OnBoard(before.bs, payload.a, payload.b) =>
    /\ resp = << sendError >>
    /\ _goban = before.goban
    /\ _boardSize = before.bs
    /\ searchArg = NoSearch

\* C5 witness: a TURN with its terminator and a coordinate off the board
\* was refused on a started board that holds a stone.
C5_Witness ==
  /\ ByTable("TURN") /\ payload.term
  /\ before.bs[1] >= MIN_BOARD_SIZE
  /\ ~OnBoard(before.bs, payload.a, payload.b)
  /\ before.goban.cells # << >>
  /\ resp = << sendError >>

\* C6: START n with n >= MIN_BOARD_SIZE, and RECSTART w,h with both at least
\* MIN_BOARD_SIZE, leave a board of the requested size with every cell
\* EMPTY, and send OK first.
C6_StartLeavesEmptyBoard ==
  /\ ByTable("START") /\ payload.term /\ payload.a >= MIN_BOARD_SIZE =>
       /\ _boardSize = << payload.a, payload.a >>
       /\ _goban = [size |-> payload.a * payload.a, cells |-> << >>]
       /\ resp # << >> /\ resp[1] = sendOk
  /\ ByTable("RECSTART") /\ payload.term
       /\ payload.a >= MIN_BOARD_SIZE /\ payload.b >= MIN_BOARD_SIZE =>
       /\ _boardSize = << payload.a, payload.b >>
       /\ _goban = [size |-> payload.a * payload.b, cells |-> << >>]
       /\ resp # << >> /\ resp[1] = sendOk

\* C7: START with a size below MIN_BOARD_SIZE, and RECSTART with a width or
\* a height below it, send ERROR and leave the size and every cell as they
\* were.
C7_StartBelowMinimum ==
  /\ ByTable("START") /\ payload.a < MIN_BOARD_SIZE =>
       resp = << sendError >> /\ _goban = before.goban /\ _boardSize = before.bs
  /\ ByTable("RECSTART")
       /\ (payload.a < MIN_BOARD_SIZE \/ payload.b < MIN_BOARD_SIZE) =>
       resp = << sendError >> /\ _goban = before.goban /\ _boardSize = before.bs

\* C7 witness: a RECSTART with its terminator, a width of MIN_BOARD_SIZE and
\* a height below it was refused on a board that holds a stone.
C7_Witness ==
  /\ ByTable("RECSTART") /\ payload.term
  /\ payload.a >= MIN_BOARD_SIZE /\ payload.b < MIN_BOARD_SIZE
  /\ before.goban.cells # << >>
  /\ resp = << sendError >>

\* C8: a RESTART with its terminator leaves every cell EMPTY, keeps the size
\* and sends OK; a second RESTART on the board it leaves gives that board
\* again.
C8_RestartClears ==
  ByTable("RESTART") /\ payload.term =>
    /\ _goban.cells = << >>
    /\ _goban.size = before.goban.size
    /\ _boardSize = before.bs
    /\ resp = << sendOk >>
    /\ handleRestart(_goban, _boardSize, payload)
         = { Out(_goban, _boardSize, << sendOk >>, NoSearch) }

\* C8 witness: a RESTART was handled on a started board that held a stone.
C8_Witness ==
  /\ ByTable("RESTART") /\ payload.term
  /\ before.bs[1] >= MIN_BOARD_SIZE
  /\ before.goban.cells # << >>
  /\ _goban.cells = << >>

\* C9: a BEGIN on a started board with every cell EMPTY replies the center
\* (w/2, h/2) and leaves that cell SELF and every other cell EMPTY.
C9_BeginPlaysCenter ==
  ByTable("BEGIN") /\ payload.term
    /\ before.bs[1] > 0 /\ before.goban.cells = << >> =>
      /\ resp = << Response("MOVE", before.bs[1] \div 2, before.bs[2] \div 2) >>
      /\ _goban = Put(before.goban,
                      Cell(before.bs, before.bs[1] \div 2, before.bs[2] \div 2),
                      SELF)

\* C10: a PLAY x,y on a cell that holds a stone sends ERROR and changes no
\* cell.
C10_PlayOccupied ==
  ByTable("PLAY") /\ payload.term
    /\ OnBoard(before.bs, payload.a, payload.b)
    /\ At(before.goban, Cell(before.bs, payload.a, payload.b)) # EMPTY =>
      resp = << sendError >> /\ _goban = before.goban

\* C11: a TAKEBACK x,y with (x,y) on the board leaves cell (x,y) EMPTY and
\* every other cell as it was, and sends nothing.
C11_TakebackClearsCell ==
  ByTable("TAKEBACK") /\ payload.term
    /\ OnBoard(before.bs, payload.a, payload.b) =>
      /\ _goban = Put(before.goban, Cell(before.bs, payload.a, payload.b), EMPTY)
      /\ _boardSize = before.bs
      /\ resp = << >>

\* C12: while loading, an entry line x,y,owner with (x,y) on the board and
\* owner SELF or OPPONENT leaves cell y * width + x holding owner and every
\* other cell as it was, keeps boardIsActivated set and sends nothing.
C12_EntrySetsOneCell ==
  pc # "handle" /\ before.active /\ payload.kw = "ENTRY" /\ payload.term
    /\ OnBoard(before.bs, payload.a, payload.b)
    /\ payload.c \in {SELF, OPPONENT} =>
      /\ _goban = Put(before.goban, payload.b * before.bs[1] + payload.a,
                      payload.c)
      /\ _boardSize = before.bs
      /\ boardIsActivated
      /\ resp = << >>

\* C12 witness: the entry 1,0,SELF was loaded on a board that held an
\* OPPONENT stone at (0,0) and nothing at (1,0).
C12_Witness ==
  /\ pc = "wait" /\ before.active
  /\ payload = Line("ENTRY", 1, 0, SELF, TRUE)
  /\ before.bs[1] >= MIN_BOARD_SIZE
  /\ At(before.goban, 0) = OPPONENT /\ At(before.goban, 1) = EMPTY
  /\ At(_goban, 0) = OPPONENT /\ At(_goban, 1) = SELF

\* C13: while loading, an entry line with a coordinate off the board or
\* with owner 3 sends ERROR and changes no cell, so the cells of the entries
\* loaded before it keep their values, and boardIsActivated stays set.
C13_InvalidEntryKeepsLoad ==
  pc # "handle" /\ before.active /\ payload.kw = "ENTRY" /\ payload.term
    /\ (~OnBoard(before.bs, payload.a, payload.b) \/ payload.c = 3) =>
      /\ resp = << sendError >>
      /\ _goban = before.goban
      /\ _boardSize = before.bs
      /\ boardIsActivated

\* C13 witness: the entry 1,0,3 was refused while loading a board on which
\* an earlier entry had put SELF at (1,0); the stone is still there.
C13_Witness ==
  /\ pc = "wait" /\ before.active
  /\ payload = Line("ENTRY", 1, 0, 3, TRUE)
  /\ At(before.goban, 1) = SELF /\ At(_goban, 1) = SELF
  /\ resp = << sendError >>
  /\ boardIsActivated

\* C14: in every state, every cell of the board holds EMPTY, SELF or
\* OPPONENT.
C14_CellValues ==
  \A i \in DOMAIN _goban.cells : _goban.cells[i] \in {EMPTY, SELF, OPPONENT}

\* A line that asks for a move: TURN or BEGIN reaching its handler through
\* the command table, or DONE.
AsksMove ==
  \/ payload.kw \in {"TURN", "BEGIN"} /\ ~before.active
  \/ payload.kw = "DONE"

\* C15: once logicLoop is done with a TURN, BEGIN or DONE line that has its
\* terminator, exactly one line was sent for it, a coordinate or an ERROR.
C15_OneAnswer ==
  pc # "handle" /\ AsksMove /\ payload.term =>
    /\ Len(resp) = 1
    /\ resp[1].kind \in {"MOVE", "ERROR"}

\* C16: an END line with its terminator that reached handleEnd leaves
\* _running cleared, and from then on logicLoop pops no line, handles none,
\* changes no cell and sends nothing.
C16_EndStopsDispatcher ==
  /\ [](ByTable("END") /\ payload.term => ~_running)
  /\ [][~_running =>
          /\ _running' = _running
          /\ popped' = popped
          /\ pc' # "handle"
          /\ _goban' = _goban /\ _boardSize' = _boardSize
          /\ boardIsActivated' = boardIsActivated
          /\ resp' = resp]_vars

\* C16 witness: logicLoop has returned after END while a line pushed after
\* it is still in the queue.
C16_Witness ==
  /\ pc = "done" /\ ~_running
  /\ payload.kw = "END"
  /\ _commandQueue # << >> /\ _commandQueue[1].kw = "TURN"

(***************************************************************************)
(* The pipeline under fair scheduling: each of the two threads takes its   *)
(* next step when it can, and a std::getline that can return does.         *)
(***************************************************************************)
Ingest ==
  \/ IngestStart \/ IngestCheck \/ IngestRead \/ IngestPush
  \/ IngestPushBeyond \/ IngestNotify

Logic == Sleep \/ Dequeue \/ LoopExit \/ Handle

NextLive == Ingest \/ Logic

SpecLive == Init /\ [][NextLive]_vars /\ WF_vars(Ingest) /\ WF_vars(Logic)

\* Both loops have returned, or the process was killed.
Terminated == pc = "aborted" \/ (ipc = "exit" /\ pc = "done")

\* C17: once std::cin has reached its end, inputHandler and logicLoop both
\* return eventually.
C17_EndOfInputTerminates == eof ~> Terminated

\* C18: outside a load, a non-empty line that no key of the command table
\* is a prefix of is answered by one UNKNOWN line carrying that line, and
\* leaves the board, boardIsActivated and _running as they were.
C18_UnknownLineEchoed ==
  pc # "handle" /\ ~before.active /\ payload.kw \notin Keywords \cup {"EMPTY"} =>
    /\ Len(resp) = 1
    /\ resp[1].kind = "UNKNOWN" /\ resp[1].message = payload
    /\ _goban = before.goban /\ _boardSize = before.bs
    /\ ~boardIsActivated
    /\ _running

\* C18 witness: an entry line arrived outside a load, on a board holding a
\* stone, and was answered UNKNOWN.
C18_Witness ==
  /\ pc = "wait" /\ ~before.active
  /\ payload.kw = "ENTRY" /\ payload.term
  /\ before.goban.cells # << >>
  /\ Len(resp) = 1 /\ resp[1].kind = "UNKNOWN"

\* C19: a line with a keyword of the command table and no terminator, popped
\* where the command table is consulted, is answered by one ERROR line and
\* leaves the board, boardIsActivated and _running as they were.
C19_UnterminatedRejected ==
  pc # "handle" /\ payload.kw \in Keywords /\ ~payload.term
    /\ (~before.active \/ payload.kw = "DONE") =>
      /\ resp = << sendError >>
      /\ _goban = before.goban /\ _boardSize = before.bs
      /\ boardIsActivated = before.active
      /\ _running

\* The line handled last met an error condition: no terminator, no known
\* keyword, an unknown INFO key, a coordinate off the board, owner 3 in a
\* load, or a search that returned without a move.
ErrorCondition ==
  \/ payload.kw # "EMPTY" /\ ~payload.term
  \/ ~before.active /\ payload.kw \notin Keywords \cup {"EMPTY"}
  \/ ByTable("INFO") /\ ~checkKeyExists(payload)
  \/ /\ \/ ~before.active /\ payload.kw \in {"TURN", "TAKEBACK"}
        \/ before.active /\ payload.kw = "ENTRY"
     /\ ~OnBoard(before.bs, payload.a, payload.b)
  \/ before.active /\ payload.kw = "ENTRY" /\ payload.c = 3
  \/ searchArg # NoSearch /\ NoMove(searchArg, before.bs)

\* C20: after a line that met an error condition _running is still set and
\* logicLoop is ready for the next line; only the handling of an END line
\* clears _running.
C20_ErrorsDoNotStop ==
  /\ [](pc # "handle" /\ ErrorCondition => _running /\ pc = "wait")
  /\ [][_running /\ ~_running' => pc = "handle" /\ payload.kw = "END"]_vars

\* The lines that sendOk, sendError, sendUnknown, sendDebug and
\* sendCoordinate write: each is written by sendResponse, which holds
\* _responseMutex.  The line of kind "ABOUT" is written by handleAbout with
\* std::cout << line itself.
WrittenBySendResponse(r) == r.kind \in {"OK", "ERROR", "UNKNOWN", "DEBUG", "MOVE"}

\* C21: every line a handler writes to the output is written by
\* sendResponse, under _responseMutex.
C21_AllThroughSendResponse ==
  \A i \in 1 .. Len(resp) : WrittenBySendResponse(resp[i])

(***************************************************************************)
(* The search functions called directly: probe holds the arguments of one  *)
(* call and then its result.  The boards are 20x20 boards with stones of   *)
(* both sides on the first cells of row 0.                                 *)
(***************************************************************************)
RowCells == 5
MaxDepth == 2

SearchBoards ==
  { [size |-> MIN_BOARD_SIZE * MIN_BOARD_SIZE,
     cells |-> [i \in { j \in 0 .. RowCells - 1 : f[j] # 0 } |-> f[i]]] :
    f \in [0 .. RowCells - 1 -> {EMPTY, SELF, OPPONENT}] }

InitSearch ==
  /\ Init!1 /\ Init!2 /\ Init!3 /\ Init!4 /\ Init!5 /\ Init!6 /\ Init!7
  /\ Init!8 /\ Init!9 /\ Init!10 /\ Init!11 /\ Init!12 /\ Init!13
  /\ Init!14 /\ Init!15 /\ Init!16 /\ Init!17
  /\ \E state \in SearchBoards, depth \in 0 .. MaxDepth,
        maximizingPlayer \in BOOLEAN :
       probe = [call |-> "ready", state |-> state,
                bs |-> << MIN_BOARD_SIZE, MIN_BOARD_SIZE >>, depth |-> depth,
                maximizingPlayer |-> maximizingPlayer]

CallMinimax ==
  /\ probe.call = "ready"
  /\ probe' = [call |-> "minimax", state |-> probe.state, bs |-> probe.bs,
               depth |-> probe.depth,
               maximizingPlayer |-> probe.maximizingPlayer,
               result |-> minimax(probe.state, probe.bs, probe.depth,
                                  probe.maximizingPlayer, IntMin, IntMax)]
  /\ UNCHANGED pipeVars
  /\ UNCHANGED logicVars

NextSearch == CallMinimax

SpecSearch == InitSearch /\ [][NextSearch]_vars

Searched == probe.call = "minimax"

\* The search of minimax with the test "if (beta <= alpha) break" removed
\* from both loops: every candidate of every node is searched.
RECURSIVE minimaxNoCutoff(_, _, _, _, _, _)
RECURSIVE maxLoopNoCutoff(_, _, _, _, _, _, _, _, _)
RECURSIVE minLoopNoCutoff(_, _, _, _, _, _, _, _, _)

maxLoopNoCutoff(state, bs, depth, moves, k, alpha, beta, maxEval, best) ==
  IF k > Len(moves)
  THEN << maxEval, IF best < 0 THEN moves[1] ELSE best >>
  ELSE LET move == moves[k]
           eval == minimaxNoCutoff(Put(state, move, 1), bs, depth - 1, FALSE,
                                   alpha, beta)[1]
       IN  maxLoopNoCutoff(state, bs, depth, moves, k + 1,
                           IF eval > alpha THEN eval ELSE alpha, beta,
                           IF eval > maxEval THEN eval ELSE maxEval,
                           IF eval > maxEval THEN move ELSE best)

minLoopNoCutoff(state, bs, depth, moves, k, alpha, beta, minEval, best) ==
  IF k > Len(moves)
  THEN << minEval, IF best < 0 THEN moves[1] ELSE best >>
  ELSE LET move == moves[k]
           eval == minimaxNoCutoff(Put(state, move, 2), bs, depth - 1, TRUE,
                                   alpha, beta)[1]
       IN  minLoopNoCutoff(state, bs, depth, moves, k + 1, alpha,
                           IF eval < beta THEN eval ELSE beta,
                           IF eval < minEval THEN eval ELSE minEval,
                           IF eval < minEval THEN move ELSE best)

minimaxNoCutoff(state, bs, depth, maximizingPlayer, alpha, beta) ==
  IF checkWinCondition(state, bs, 1) THEN << PLAYER_ONE_WIN, 0 >>
  ELSE IF checkWinCondition(state, bs, 2) THEN << PLAYER_TWO_WIN, 0 >>
  ELSE IF depth = 0 \/ isBoardFull(state) THEN << DRAW, DRAW >>
  ELSE LET possibleMoves == getPossibleMoves(state, bs)
       IN  IF maximizingPlayer
           THEN maxLoopNoCutoff(state, bs, depth, possibleMoves, 1, alpha,
                                beta, IntMin, -1)
           ELSE minLoopNoCutoff(state, bs, depth, possibleMoves, 1, alpha,
                                beta, IntMax, -1)

\* C22: called with the full window (INT_MIN, INT_MAX), the alpha-beta search
\* returns the same (score, move) pair as the same search with the cutoff
\* test removed.
C22_CutoffKeepsResult ==
  Searched =>
    probe.result = minimaxNoCutoff(probe.state, probe.bs, probe.depth,
                                   probe.maximizingPlayer, IntMin, IntMax)

\* A search of two plies whose answer is a draw reached by a candidate that
\* is not the first one: later candidates were searched below a raised alpha.
C22_Witness ==
  /\ Searched
  /\ probe.depth = 2
  /\ probe.maximizingPlayer
  /\ probe.result[1] = DRAW
  /\ probe.result[2] # getPossibleMoves(probe.state, probe.bs)[1]

(***************************************************************************)
(* The board functions called directly.  The boards are square and         *)
(* rectangular boards holding one line of stones of one owner, of 4 to 6   *)
(* stones at a fixed index stride (1: row, first: column, first + 1:       *)
(* down-right, first - 1: down-left, which is up-right read backwards),    *)
(* starting near a corner, with or without a stone of the other owner at   *)
(* each end; a line that leaves the board by a side wraps to the next row. *)
(* The empty board and a full board are inputs too.                        *)
(***************************************************************************)
MinRun == 4
MaxRun == 6
Margin == 2

BoardSizes ==
  { << MIN_BOARD_SIZE, MIN_BOARD_SIZE >>,
    << MIN_BOARD_SIZE + 1, MIN_BOARD_SIZE >>,
    << MIN_BOARD_SIZE, MIN_BOARD_SIZE + 1 >> }

NearEdge(n) == (0 .. Margin - 1) \cup (n - MaxRun .. n - 1)

LineBoard(bs, start, stride, run, owner, blocked) ==
  LET size == bs[1] * bs[2]
      line == { c \in { start + k * stride : k \in 0 .. run - 1 } : c < size }
      ends == IF blocked
              THEN { c \in { start - stride, start + run * stride } :
                       c >= 0 /\ c < size }
              ELSE { }
  IN  [size |-> size,
       cells |-> [c \in line \cup ends |->
                    IF c \in line THEN owner ELSE 3 - owner]]

FullBoard(bs) ==
  [size |-> bs[1] * bs[2],
   cells |-> [c \in 0 .. bs[1] * bs[2] - 1 |-> 1 + ((c \div 4) % 2)]]

LineBoards(bs) ==
  { LineBoard(bs, i * bs[1] + j, stride, run, owner, blocked) :
      i \in NearEdge(bs[2]), j \in NearEdge(bs[1]),
      stride \in { 1, bs[1], bs[1] + 1, bs[1] - 1 },
      run \in MinRun .. MaxRun, owner \in { SELF, OPPONENT },
      blocked \in BOOLEAN }

InitBoard ==
  /\ Init!1 /\ Init!2 /\ Init!3 /\ Init!4 /\ Init!5 /\ Init!6 /\ Init!7
  /\ Init!8 /\ Init!9 /\ Init!10 /\ Init!11 /\ Init!12 /\ Init!13
  /\ Init!14 /\ Init!15 /\ Init!16 /\ Init!17
  /\ \E bs \in BoardSizes :
       \E state \in LineBoards(bs)
                      \cup { Resize(EmptyState, bs[1] * bs[2]), FullBoard(bs) } :
         probe = [call |-> "ready", state |-> state, bs |-> bs]

CallCheckWinCondition ==
  /\ probe.call = "ready"
  /\ \E player \in { SELF, OPPONENT } :
       probe' = [call |-> "checkWinCondition", state |-> probe.state,
                 bs |-> probe.bs, player |-> player,
                 result |-> checkWinCondition(probe.state, probe.bs, player)]
  /\ UNCHANGED pipeVars
  /\ UNCHANGED logicVars

CallGetPossibleMoves ==
  /\ probe.call = "ready"
  /\ probe' = [call |-> "getPossibleMoves", state |-> probe.state,
               bs |-> probe.bs,
               result |-> getPossibleMoves(probe.state, probe.bs)]
  /\ UNCHANGED pipeVars
  /\ UNCHANGED logicVars

NextBoard == CallCheckWinCondition \/ CallGetPossibleMoves

SpecBoard == InitBoard /\ [][NextBoard]_vars

Row(bs, c) == c \div bs[1]
Col(bs, c) == c % bs[1]

\* The cells (i + k * di, j + k * dj), k = 0 .. 4, are all on the board and
\* all hold owner.
FiveFrom(state, bs, i, j, di, dj, owner) ==
  \A k \in 0 .. 4 :
    /\ i + k * di \in 0 .. bs[2] - 1
    /\ j + k * dj \in 0 .. bs[1] - 1
    /\ At(state, (i + k * di) * bs[1] + j + k * dj) = owner

Directions == { << 0, 1 >>, << 1, 0 >>, << 1, 1 >>, << -1, 1 >> }

HasFive(state, bs, owner) ==
  \E c \in DOMAIN state.cells : \E d \in Directions :
    FiveFrom(state, bs, Row(bs, c), Col(bs, c), d[1], d[2], owner)

CheckedWin == probe.call = "checkWinCondition"

\* C23: on square and rectangular boards, checkWinCondition(state, owner) is
\* true exactly when five consecutive cells of a row, a column, a down-right
\* or an up-right diagonal hold owner: true for runs of 5 and 6, false when
\* the longest run is 4.
C23_WinIffFive ==
  CheckedWin => (probe.result <=> HasFive(probe.state, probe.bs, probe.player))

\* A run of six on a board wider than high is detected.
C23_Witness ==
  /\ CheckedWin
  /\ probe.bs[1] > probe.bs[2]
  /\ Cardinality({ c \in DOMAIN probe.state.cells :
                     probe.state.cells[c] = probe.player }) = MaxRun
  /\ probe.result

(***************************************************************************)
(* The two handlers that answer with a searched move, called directly on   *)
(* one board: 20x20 boards with OPPONENT stones on the first cells of row  *)
(* 0.  handleTurn is called on the board without its last stone, with the  *)
(* TURN line of that stone, so that both pass the same board to minimax.   *)
(***************************************************************************)
ReplyBoards ==
  { [size |-> MIN_BOARD_SIZE * MIN_BOARD_SIZE,
     cells |-> [c \in S |-> OPPONENT]] :
    S \in (SUBSET (0 .. RowCells)) \ { { } } }

LastStone(state) ==
  CHOOSE c \in DOMAIN state.cells : \A d \in DOMAIN state.cells : d <= c

Without(state, c) ==
  [size |-> state.size,
   cells |-> [d \in DOMAIN state.cells \ { c } |-> state.cells[d]]]

TurnOf(bs, c) == Line("TURN", c % bs[1], c \div bs[1], 0, TRUE)

InitReply ==
  /\ Init!1 /\ Init!2 /\ Init!3 /\ Init!4 /\ Init!5 /\ Init!6 /\ Init!7
  /\ Init!8 /\ Init!9 /\ Init!10 /\ Init!11 /\ Init!12 /\ Init!13
  /\ Init!14 /\ Init!15 /\ Init!16 /\ Init!17
  /\ \E state \in ReplyBoards :
       probe = [call |-> "ready", state |-> state,
                bs |-> << MIN_BOARD_SIZE, MIN_BOARD_SIZE >>]

CallHandleTurn ==
  /\ probe.call = "ready"
  /\ LET c == LastStone(probe.state)
     IN  probe' = [call |-> "handleTurn", state |-> probe.state,
                   bs |-> probe.bs,
                   result |-> handleTurn(Without(probe.state, c), probe.bs,
                                         TurnOf(probe.bs, c))]
  /\ UNCHANGED pipeVars
  /\ UNCHANGED logicVars

CallHandleDone ==
  /\ probe.call = "ready"
  /\ probe' = [call |-> "handleDone", state |-> probe.state, bs |-> probe.bs,
               result |-> handleDone(probe.state, probe.bs,
                                     Line("DONE", 0, 0, 0, TRUE))]
  /\ UNCHANGED pipeVars
  /\ UNCHANGED logicVars

NextReply == CallHandleTurn \/ CallHandleDone

SpecReply == InitReply /\ [][NextReply]_vars

Replies(outcomes) == { o.resp : o \in outcomes }

\* C24: on the same board, DONE sends the reply that the search started by
\* TURN sends: both call minimax with the same depth, the same maximizing
\* side and the same window.
C24_DoneRepliesAsTurn ==
  probe.call = "handleDone" =>
    /\ \A o \in probe.result : o.search = probe.state
    /\ Replies(probe.result)
         = Replies(handleTurn(Without(probe.state, LastStone(probe.state)),
                              probe.bs,
                              TurnOf(probe.bs, LastStone(probe.state))))

\* The scores minimax returns at depth 0 on the boards of SearchBoards on
\* which neither side has five in a row.
NonTerminalScores ==
  { minimax(b, probe.bs, 0, TRUE, IntMin, IntMax)[1] :
      b \in { s \in SearchBoards :
                /\ ~HasFive(s, probe.bs, SELF)
                /\ ~HasFive(s, probe.bs, OPPONENT) } }

IsCell(state, move) == move \in 0 .. state.size - 1

\* C25: on a board with five in a row for SELF the search returns a positive
\* score greater than every score of a non-terminal position; with five in a
\* row for OPPONENT only, a negative score of the same magnitude; in both
\* cases the move is no cell index.
C25_WinScores ==
  Searched =>
    /\ HasFive(probe.state, probe.bs, SELF) =>
         /\ probe.result[1] > 0
         /\ \A v \in NonTerminalScores : probe.result[1] > v
         /\ ~IsCell(probe.state, probe.result[2])
    /\ (HasFive(probe.state, probe.bs, OPPONENT)
          /\ ~HasFive(probe.state, probe.bs, SELF)) =>
         /\ probe.result[1] < 0
         /\ \A v \in NonTerminalScores : probe.result[1] < -v
         /\ ~IsCell(probe.state, probe.result[2])

\* Neither side has five in a row, and depth is 0 or no cell is EMPTY.
Leaf(state, bs, depth) ==
  /\ ~HasFive(state, bs, SELF)
  /\ ~HasFive(state, bs, OPPONENT)
  /\ (depth = 0 \/ \A c \in 0 .. state.size - 1 : At(state, c) # EMPTY)

\* C26: at a leaf the search returns an evaluation of the board as score, so
\* that some other leaf board receives a different score, together with a
\* move that is no cell index.
C26_LeafIsEvaluated ==
  (Searched /\ Leaf(probe.state, probe.bs, probe.depth)) =>
    /\ ~IsCell(probe.state, probe.result[2])
    /\ \E b \in SearchBoards :
         /\ Leaf(b, probe.bs, probe.depth)
         /\ minimax(b, probe.bs, probe.depth, probe.maximizingPlayer,
                    IntMin, IntMax)[1] # probe.result[1]

\* The cells of the coordinates the handler sent.
RepliedCells ==
  { Cell(_boardSize, resp[i].x, resp[i].y) :
      i \in { k \in 1 .. Len(resp) : resp[k].kind = "MOVE" } }

\* C27: when a handler that ran a search has returned, the board has the
\* size it had when it was passed to minimax and every cell holds what it
\* held then, but for the cell of the move the handler played after the
\* search: no trial placement of the search is left on the board.
C27_SearchLeavesBoard ==
  (Returned /\ searchArg # NoSearch) =>
    /\ _goban.size = searchArg.size
    /\ \A c \in 0 .. searchArg.size - 1 :
         At(_goban, c) # At(searchArg, c) =>
           c \in RepliedCells /\ At(_goban, c) = SELF

\* A TURN whose search went through its loops and came back with a move: the
\* board is the board that was searched.
C27_Witness ==
  /\ ByTable("TURN")
  /\ searchArg # NoSearch
  /\ ~NoMove(searchArg, _boardSize)
  /\ Cardinality(DOMAIN searchArg.cells) >= 3
  /\ _goban = searchArg

GotMoves == probe.call = "getPossibleMoves"

\* The EMPTY cells of the board with a stone on one of the up to 8 cells of
\* the board next to them, in a row, a column or a diagonal.
Candidates(state, bs) ==
  { c \in 0 .. state.size - 1 :
      /\ At(state, c) = EMPTY
      /\ \E d \in DOMAIN state.cells :
           /\ d # c
           /\ Row(bs, d) - Row(bs, c) \in -1 .. 1
           /\ Col(bs, d) - Col(bs, c) \in -1 .. 1 }

Increasing(seq) == \A k \in 1 .. Len(seq) - 1 : seq[k] < seq[k + 1]

\* C28: on a board with a stone and an EMPTY cell, square or not,
\* getPossibleMoves returns the EMPTY cells that have a stone among their
\* neighbours, each once, in increasing index order.
C28_CandidatesAreNeighbours ==
  (GotMoves /\ probe.state.cells # << >>
     /\ Cardinality(DOMAIN probe.state.cells) < probe.state.size) =>
    /\ { probe.result[k] : k \in 1 .. Len(probe.result) }
         = Candidates(probe.state, probe.bs)
    /\ Increasing(probe.result)

\* A board higher than wide with stones on its last row: the candidates are
\* cells of the last two rows.
C28_Witness ==
  /\ GotMoves
  /\ probe.bs[2] > probe.bs[1]
  /\ \E c \in DOMAIN probe.state.cells : Row(probe.bs, c) = probe.bs[2] - 1
  /\ Len(probe.result) > MaxRun

Center(bs) == (bs[2] \div 2) * bs[1] + (bs[1] \div 2)

EmptyCells(state) == { c \in 0 .. state.size - 1 : At(state, c) = EMPTY }

CandidateScore(move) ==
  minimaxNoCutoff(Put(probe.state, move,
                      IF probe.maximizingPlayer THEN SELF ELSE OPPONENT),
                  probe.bs, probe.depth - 1, ~probe.maximizingPlayer,
                  IntMin, IntMax)[1]

Better(v, w) == IF probe.maximizingPlayer THEN v > w ELSE v < w

\* C30: a search with depth > 0 on a board without five in a row and with an
\* EMPTY cell returns one of the candidates of getPossibleMoves: the first
\* one, in the order of getPossibleMoves, whose score no candidate betters,
\* on a maximizing and on a minimizing ply.
C30_EarliestBestCandidate ==
  (Searched /\ probe.depth > 0
     /\ ~HasFive(probe.state, probe.bs, SELF)
     /\ ~HasFive(probe.state, probe.bs, OPPONENT)
     /\ EmptyCells(probe.state) # { }) =>
    LET moves == getPossibleMoves(probe.state, probe.bs)
    IN  \E k \in 1 .. Len(moves) :
          /\ probe.result[2] = moves[k]
          /\ probe.result[1] = CandidateScore(moves[k])
          /\ \A j \in 1 .. Len(moves) :
               ~Better(CandidateScore(moves[j]), CandidateScore(moves[k]))
          /\ \A j \in 1 .. k - 1 :
               Better(CandidateScore(moves[k]), CandidateScore(moves[j]))

\* A search of one ply for SELF whose first candidate completes five in a
\* row and scores below the later ones: the move returned is a later one.
C30_Witness ==
  /\ Searched
  /\ probe.depth = 1
  /\ probe.maximizingPlayer
  /\ HasFive(Put(probe.state, getPossibleMoves(probe.state, probe.bs)[1],
                 SELF), probe.bs, SELF)
  /\ probe.result[2] = getPossibleMoves(probe.state, probe.bs)[2]

\* A step of inputHandler: every step of it moves ipc, and no step of
\* logicLoop does.
IngestStep == ipc' # ipc

C32_OnePushPerLine ==
  /\ Len(pushed) <= nRead
  /\ ipc = "notify" => Len(pushed) = nRead

\* logicLoop is at its _cv.wait with a line in the queue and _running set.
LineWaiting == pc = "wait" /\ _commandQueue # << >> /\ _running

\* C33: under fair scheduling of the two threads, logicLoop does not stay
\* blocked in _cv.wait while the queue holds a line: when it is at its wait
\* with a line in the queue and _running set, it wakes and pops the line, or
\* _running is cleared.
C33_NoLostWakeup ==
  /\ (LineWaiting /\ asleep) ~> ~asleep
  /\ LineWaiting ~> (pc = "handle" \/ ~_running)

\* logicLoop is blocked in _cv.wait and inputHandler has pushed a line but
\* not yet notified.
C33_Witness ==
  /\ LineWaiting
  /\ asleep
  /\ ipc = "notify"

\* The indices i * first + j, i < first, j < second, that the dump at the
\* end of handleBoard reads.
DumpIndices(bs) ==
  { i * bs[1] + j : i \in 0 .. bs[1] - 1, j \in 0 .. bs[2] - 1 }

\* handleBoard has stored the entry of the line handled last and dumped the
\* board.
EntryLoaded ==
  /\ pc # "handle" /\ before.active
  /\ payload.kw \notin {"EMPTY", "DONE"}
  /\ \A i \in 1 .. Len(resp) : resp[i].kind # "ERROR"

\* C34: _goban has first * second cells, every cell that holds a stone and
\* every cell of a coordinate sent has an index below that, and the board
\* dump after a stored entry reads only indices below that, on square and on
\* rectangular boards.
C34_IndicesInBounds ==
  /\ _goban.size = _boardSize[1] * _boardSize[2]
  /\ \A c \in DOMAIN _goban.cells : IsCell(_goban, c)
  /\ \A c \in RepliedCells : _boardSize[1] > 0 => IsCell(_goban, c)
  /\ EntryLoaded => \A c \in DumpIndices(_boardSize) : IsCell(_goban, c)

(***************************************************************************)
(* The command table matched against lines written out character by        *)
(* character: the keys of _commands, each followed by nothing, by a        *)
(* character or by another key, and the beginnings of the keys.            *)
(***************************************************************************)
\* The characters of the key kw of _commands.
Spelling(kw) ==
  CASE kw = "START" -> << "S", "T", "A", "R", "T" >>
    [] kw = "TURN" -> << "T", "U", "R", "N" >>
    [] kw = "BEGIN" -> << "B", "E", "G", "I", "N" >>
    [] kw = "BOARD" -> << "B", "O", "A", "R", "D" >>
    [] kw = "DONE" -> << "D", "O", "N", "E" >>
    [] kw = "INFO" -> << "I", "N", "F", "O" >>
    [] kw = "END" -> << "E", "N", "D" >>
    [] kw = "ABOUT" -> << "A", "B", "O", "U", "T" >>
    [] kw = "RECSTART" -> << "R", "E", "C", "S", "T", "A", "R", "T" >>
    [] kw = "RESTART" -> << "R", "E", "S", "T", "A", "R", "T" >>
    [] kw = "TAKEBACK" -> << "T", "A", "K", "E", "B", "A", "C", "K" >>
    [] kw = "PLAY" -> << "P", "L", "A", "Y" >>
    [] kw = "SWAP2BOARD" -> << "S", "W", "A", "P", "2", "B", "O", "A", "R", "D" >>
    [] kw = "UNKNOWN" -> << "U", "N", "K", "N", "O", "W", "N" >>
    [] kw = "ERROR" -> << "E", "R", "R", "O", "R" >>
    [] kw = "MESSAGE" -> << "M", "E", "S", "S", "A", "G", "E" >>
    [] kw = "DEBUG" -> << "D", "E", "B", "U", "G" >>
    [] kw = "SUGGEST" -> << "S", "U", "G", "G", "E", "S", "T" >>

MaxTail == 1

Tails ==
  UNION { [1 .. n -> {" ", "S", "0"}] : n \in 0 .. MaxTail }
  \cup { Spelling(kw) : kw \in Keywords }

TableLines ==
  { Spelling(kw) \o tail : kw \in Keywords, tail \in Tails }
  \cup UNION { { SubSeq(Spelling(kw), 1, n) : n \in 1 .. Len(Spelling(kw)) } :
                 kw \in Keywords }

\* find that tells whether key occurs in the line, not where: 0 when it
\* does.
findOccurs(text, key) ==
  IF \E i \in 0 .. Len(text) - Len(key) :
       SubSeq(text, i + 1, i + Len(key)) = key
  THEN 0 ELSE -1

\* payload.find(key): the least position at which key occurs in the line, -1
\* (npos) when it occurs nowhere.
find(text, key) ==
  LET at == { i \in 0 .. Len(text) - Len(key) :
                SubSeq(text, i + 1, i + Len(key)) = key }
  IN  IF at = { } THEN -1
      ELSE CHOOSE i \in at : \A j \in at : i <= j

\* The keys the loop over _commands can stop at: the iteration order of the
\* unordered_map is unspecified, so it is any key with find(...) == 0.
Matching(text) ==
  { kw \in Keywords : find(text, Spelling(kw)) = 0 }

InitTable ==
  /\ Init!1 /\ Init!2 /\ Init!3 /\ Init!4 /\ Init!5 /\ Init!6 /\ Init!7
  /\ Init!8 /\ Init!9 /\ Init!10 /\ Init!11 /\ Init!12 /\ Init!13
  /\ Init!14 /\ Init!15 /\ Init!16 /\ Init!17
  /\ \E line \in TableLines : probe = [call |-> "ready", line |-> line]

LookUp ==
  /\ probe.call = "ready"
  /\ \E kw \in Matching(probe.line) :
       probe' = [call |-> "found", line |-> probe.line, key |-> kw]
  /\ UNCHANGED pipeVars
  /\ UNCHANGED logicVars

LookUpFails ==
  /\ probe.call = "ready"
  /\ Matching(probe.line) = { }
  /\ probe' = [call |-> "unknown", line |-> probe.line]
  /\ UNCHANGED pipeVars
  /\ UNCHANGED logicVars

NextTable == LookUp \/ LookUpFails

SpecTable == InitTable /\ [][NextTable]_vars

\* line starts with the characters of key.
StartsWith(line, key) ==
  /\ Len(key) <= Len(line)
  /\ \A i \in 1 .. Len(key) : line[i] = key[i]

Starting(line) == { kw \in Keywords : StartsWith(line, Spelling(kw)) }

\* C35: no key of _commands starts with another key, so a line starts with
\* at most one key, and the key the loop over _commands stops at is that key
\* whatever the order of the iteration.
C35_NoKeywordPrefix ==
  /\ \A k1 \in Keywords : \A k2 \in Keywords \ { k1 } :
       ~StartsWith(Spelling(k2), Spelling(k1))
  /\ probe.call = "found" => Starting(probe.line) = { probe.key }
  /\ probe.call = "unknown" => Starting(probe.line) = { }

\* The line RESTARTSTART: START occurs in it twice, and the key found is
\* RESTART.
C35_Witness ==
  /\ probe.call = "found"
  /\ probe.key = "RESTART"
  /\ probe.line = Spelling("RESTART") \o Spelling("START")

\* C36: a TURN, BEGIN or DONE line with its terminator handled while
\* _boardSize is (0, 0) and _goban has no cell is answered by one ERROR line
\* and leaves the board and its size as they were; no coordinate is computed
\* by a division or a remainder by the width 0, which kills the process or
\* sends an arbitrary coordinate.
C36_SearchBeforeStart ==
  (pc # "handle" /\ AsksMove /\ payload.term
     /\ before.bs = << 0, 0 >> /\ before.goban.size = 0) =>
    /\ pc # "aborted"
    /\ resp = << sendError >>
    /\ _goban = before.goban
    /\ _boardSize = before.bs

====
